---------------------------- MODULE Spec2Model ----------------------------
(***************************************************************************)
(* State-machine model of client/SDL/sdl_freerdp.c: the Protocol Thread    *)
(* (sdl_client_thread_proc and the hooks the protocol engine calls on it)  *)
(* and the UI Thread (main -> sdl_run), coupled by four manual-reset       *)
(* events, the abort event and the SDL event queue.                        *)
(***************************************************************************)
EXTENDS Naturals, Integers, Sequences, FiniteSets, TLC

(* ------------------------------ bounds -------------------------------- *)
\* paint cycles (BeginPaint calls) the protocol engine issues in one run
MaxFrames == 2
\* native SDL events (SDL_QUIT, input) that arrive in one run
MaxNative == 1
\* DesktopResize calls the protocol engine issues in one run
MaxResizes == 1
\* invalid rectangles the decode pipeline reports in one frame
MaxRects == 1

(* ------------------------- program constants -------------------------- *)
\* WaitForMultipleObjects status: handles[0] is signaled
WAIT_OBJECT_0 == "WAIT_OBJECT_0"
\* WaitForMultipleObjects status: handles[1] (the abort event) is signaled
WAIT_OBJECT_1 == "WAIT_OBJECT_0 + 1"
\* no status: the wait has not returned
NoStatus == "none"
\* sdl->windowCount as set by sdl_create_windows
NumWindows == 1
\* a NULL SDL_Window* / SDL_Surface*
NULL == 0

VARIABLES
    \* settings (read-only after the command line is parsed)
    authOnly,          \* FreeRDP_AuthenticationOnly
    hasPassword,       \* FreeRDP_Password != NULL
    \* manual-reset events of the sdlContext, and the context's abort event
    initialize, initialized, update_complete, windows_created, abortEvent,
    \* the SDL event queue (user events pushed by the Protocol Thread and
    \* native events), oldest first
    queue,
    \* program counters of the two threads
    ptPc, uiPc,
    \* sdlContext fields
    windowCount,       \* sdl->windowCount
    windows,           \* sdl->windows[x].window, x in 1..NumWindows
    primary,           \* sdl->primary: "null", "valid" or "freed" (dangling)
    \* rdpGdi fields
    gdiReady,          \* gdi_init succeeded and gdi_free has not run
    invalidNull,       \* gdi->primary->hdc->hwnd->invalid->null
    ninvalid,          \* gdi->primary->hdc->hwnd->ninvalid
    \* locals that live across steps
    connectRc,         \* rc of freerdp_connect in sdl_client_thread_proc
    epEvent,           \* the user event sdl_run is dispatching (or NoEvent)
    wfiRc,             \* rc of the wait in sdl_wait_for_init (or NoStatus)
    bpStatus,          \* status of the wait in the last sdl_begin_paint
    \* bounded environment counters
    nextId,            \* id the next successfully pushed user event gets
    nFrames, nNative, nResizes,
    \* history (observation only; no action's guard reads them)
    sdlInitCount,      \* number of SDL_Init calls
    cwRuns,            \* number of completed sdl_create_windows runs
    framesBegun,       \* sdl_begin_paint calls that returned TRUE
    framesCompleted,   \* SetEvent(update_complete) in sdl_end_paint_process
    dispatchLog,       \* ids of user events handled by sdl_run, in order
    runWait,           \* how sdl_run's wait returned: "none", "init", "abort"
    monitorsDetected,  \* sdl_detect_monitors was called
    \* rdpGdi field written by gdi_send_suppress_output
    suppressOutput,    \* gdi->suppressOutput
    \* state of the protocol engine read by sdl_client_thread_proc
    lastError,         \* freerdp_get_last_error(context)
    errorInfo,         \* freerdp_error_info(instance)
    ultimatum,         \* disconnect ultimatum is Disconnect_Ultimatum_user_requested
    \* exit code bookkeeping
    exit_code,         \* local exit_code of sdl_client_thread_proc
    sdl_exit_code,     \* sdl->exit_code
    exitWrites,        \* number of assignments to sdl->exit_code (history)
    waitFailed,        \* the loop was left by WAIT_FAILED without reconnect (history)
    rcMain             \* rc of main

settings == <<authOnly, hasPassword>>
events == <<initialize, initialized, update_complete, windows_created, abortEvent>>
sdlState == <<windowCount, windows, primary>>
gdiState == <<gdiReady, invalidNull, ninvalid>>
counters == <<nextId, nFrames, nNative, nResizes>>
history == <<sdlInitCount, cwRuns, framesBegun, framesCompleted, dispatchLog,
             runWait, monitorsDetected>>
locals == <<connectRc, epEvent, wfiRc, bpStatus>>
exitState == <<lastError, errorInfo, ultimatum, exit_code, sdl_exit_code,
               exitWrites, waitFailed, rcMain>>
vars == <<settings, events, queue, ptPc, uiPc, sdlState, gdiState, locals,
          counters, history, suppressOutput, exitState>>

NoEvent == [type |-> "none", id |-> 0, window |-> NULL]

UserEventTypes == {"SDL_USEREVENT_UPDATE", "SDL_USEREVENT_CREATE_WINDOWS",
                   "SDL_USEREVENT_WINDOW_RESIZEABLE",
                   "SDL_USEREVENT_WINDOW_FULLSCREEN"}
NativeEventTypes == {"SDL_QUIT", "SDL_KEYDOWN", "SDL_WINDOWEVENT"}

(* --------------------------- pure helpers ----------------------------- *)

\* WaitForMultipleObjects(2, {h0, h1}, FALSE, INFINITE) on valid handles:
\* the lowest signaled index; the call blocks while neither is signaled.
WaitReady(h0, h1) == h0 \/ h1
WaitForMultipleObjects(h0, h1) == IF h0 THEN WAIT_OBJECT_0 ELSE WAIT_OBJECT_1

\* freerdp_shall_disconnect_context: the abort event is signaled
freerdp_shall_disconnect_context == abortEvent

\* sdl_push_user_event: SDL_PushEvent appends the event to the queue
sdl_push_user_event(q, type, win) ==
    Append(q, [type |-> type, id |-> nextId, window |-> win])

\* SDL_PollEvent: the oldest queued event
SDL_PollEvent(q) == Head(q)

(* ----------------------- exit code translation ------------------------- *)

\* enum SDL_EXIT_CODE
SDL_EXIT_CODE ==
    [SDL_EXIT_SUCCESS |-> 0,
     SDL_EXIT_DISCONNECT |-> 1,
     SDL_EXIT_LOGOFF |-> 2,
     SDL_EXIT_IDLE_TIMEOUT |-> 3,
     SDL_EXIT_LOGON_TIMEOUT |-> 4,
     SDL_EXIT_CONN_REPLACED |-> 5,
     SDL_EXIT_OUT_OF_MEMORY |-> 6,
     SDL_EXIT_CONN_DENIED |-> 7,
     SDL_EXIT_CONN_DENIED_FIPS |-> 8,
     SDL_EXIT_USER_PRIVILEGES |-> 9,
     SDL_EXIT_FRESH_CREDENTIALS_REQUIRED |-> 10,
     SDL_EXIT_DISCONNECT_BY_USER |-> 11,
     SDL_EXIT_LICENSE_INTERNAL |-> 16,
     SDL_EXIT_LICENSE_NO_LICENSE_SERVER |-> 17,
     SDL_EXIT_LICENSE_NO_LICENSE |-> 18,
     SDL_EXIT_LICENSE_BAD_CLIENT_MSG |-> 19,
     SDL_EXIT_LICENSE_HWID_DOESNT_MATCH |-> 20,
     SDL_EXIT_LICENSE_BAD_CLIENT |-> 21,
     SDL_EXIT_LICENSE_CANT_FINISH_PROTOCOL |-> 22,
     SDL_EXIT_LICENSE_CLIENT_ENDED_PROTOCOL |-> 23,
     SDL_EXIT_LICENSE_BAD_CLIENT_ENCRYPTION |-> 24,
     SDL_EXIT_LICENSE_CANT_UPGRADE |-> 25,
     SDL_EXIT_LICENSE_NO_REMOTE_CONNECTIONS |-> 26,
     SDL_EXIT_RDP |-> 32,
     SDL_EXIT_PARSE_ARGUMENTS |-> 128,
     SDL_EXIT_MEMORY |-> 129,
     SDL_EXIT_PROTOCOL |-> 130,
     SDL_EXIT_CONN_FAILED |-> 131,
     SDL_EXIT_AUTH_FAILURE |-> 132,
     SDL_EXIT_NEGO_FAILURE |-> 133,
     SDL_EXIT_LOGON_FAILURE |-> 134,
     SDL_EXIT_ACCOUNT_LOCKED_OUT |-> 135,
     SDL_EXIT_PRE_CONNECT_FAILED |-> 136,
     SDL_EXIT_CONNECT_UNDEFINED |-> 137,
     SDL_EXIT_POST_CONNECT_FAILED |-> 138,
     SDL_EXIT_DNS_ERROR |-> 139,
     SDL_EXIT_DNS_NAME_NOT_FOUND |-> 140,
     SDL_EXIT_CONNECT_FAILED |-> 141,
     SDL_EXIT_MCS_CONNECT_INITIAL_ERROR |-> 142,
     SDL_EXIT_TLS_CONNECT_FAILED |-> 143,
     SDL_EXIT_INSUFFICIENT_PRIVILEGES |-> 144,
     SDL_EXIT_CONNECT_CANCELLED |-> 145,
     SDL_EXIT_CONNECT_TRANSPORT_FAILED |-> 147,
     SDL_EXIT_CONNECT_PASSWORD_EXPIRED |-> 148,
     SDL_EXIT_CONNECT_PASSWORD_MUST_CHANGE |-> 149,
     SDL_EXIT_CONNECT_KDC_UNREACHABLE |-> 150,
     SDL_EXIT_CONNECT_ACCOUNT_DISABLED |-> 151,
     SDL_EXIT_CONNECT_PASSWORD_CERTAINLY_EXPIRED |-> 152,
     SDL_EXIT_CONNECT_CLIENT_REVOKED |-> 153,
     SDL_EXIT_CONNECT_WRONG_PASSWORD |-> 154,
     SDL_EXIT_CONNECT_ACCESS_DENIED |-> 155,
     SDL_EXIT_CONNECT_ACCOUNT_RESTRICTION |-> 156,
     SDL_EXIT_CONNECT_ACCOUNT_EXPIRED |-> 157,
     SDL_EXIT_CONNECT_LOGON_TYPE_NOT_GRANTED |-> 158,
     SDL_EXIT_CONNECT_NO_OR_MISSING_CREDENTIALS |-> 159,
     SDL_EXIT_UNKNOWN |-> 255]

SDL_EXIT_SUCCESS == SDL_EXIT_CODE.SDL_EXIT_SUCCESS
SDL_EXIT_LOGOFF == SDL_EXIT_CODE.SDL_EXIT_LOGOFF
SDL_EXIT_CONN_FAILED == SDL_EXIT_CODE.SDL_EXIT_CONN_FAILED
SDL_EXIT_AUTH_FAILURE == SDL_EXIT_CODE.SDL_EXIT_AUTH_FAILURE

\* MAKE_FREERDP_ERROR(class, type) == (class << 16) | type, for the classes
\* ERRINFO (1) and CONNECT (2)
ERRINFO_CLASS == 65536
CONNECT_CLASS == 131072

\* the protocol error and error-info codes the client names, as DWORD values;
\* 0xFFFFFFFF (FREERDP_ERROR_NONE) is written -1
FREERDP_ERROR ==
    [FREERDP_ERROR_SUCCESS |-> 0,
     FREERDP_ERROR_NONE |-> -1,
     ERRINFO_LOGOFF_BY_USER |-> 12,
     FREERDP_ERROR_AUTHENTICATION_FAILED |-> CONNECT_CLASS + 9,
     FREERDP_ERROR_SECURITY_NEGO_CONNECT_FAILED |-> CONNECT_CLASS + 12,
     FREERDP_ERROR_CONNECT_LOGON_FAILURE |-> CONNECT_CLASS + 20,
     FREERDP_ERROR_CONNECT_ACCOUNT_LOCKED_OUT |-> CONNECT_CLASS + 24,
     FREERDP_ERROR_PRE_CONNECT_FAILED |-> CONNECT_CLASS + 1,
     FREERDP_ERROR_CONNECT_UNDEFINED |-> CONNECT_CLASS + 2,
     FREERDP_ERROR_POST_CONNECT_FAILED |-> CONNECT_CLASS + 3,
     FREERDP_ERROR_DNS_ERROR |-> CONNECT_CLASS + 4,
     FREERDP_ERROR_DNS_NAME_NOT_FOUND |-> CONNECT_CLASS + 5,
     FREERDP_ERROR_CONNECT_FAILED |-> CONNECT_CLASS + 6,
     FREERDP_ERROR_MCS_CONNECT_INITIAL_ERROR |-> CONNECT_CLASS + 7,
     FREERDP_ERROR_TLS_CONNECT_FAILED |-> CONNECT_CLASS + 8,
     FREERDP_ERROR_INSUFFICIENT_PRIVILEGES |-> CONNECT_CLASS + 10,
     FREERDP_ERROR_CONNECT_CANCELLED |-> CONNECT_CLASS + 11,
     FREERDP_ERROR_CONNECT_TRANSPORT_FAILED |-> CONNECT_CLASS + 13,
     FREERDP_ERROR_CONNECT_PASSWORD_EXPIRED |-> CONNECT_CLASS + 14,
     FREERDP_ERROR_CONNECT_PASSWORD_MUST_CHANGE |-> CONNECT_CLASS + 19,
     FREERDP_ERROR_CONNECT_KDC_UNREACHABLE |-> CONNECT_CLASS + 17,
     FREERDP_ERROR_CONNECT_ACCOUNT_DISABLED |-> CONNECT_CLASS + 18,
     FREERDP_ERROR_CONNECT_PASSWORD_CERTAINLY_EXPIRED |-> CONNECT_CLASS + 15,
     FREERDP_ERROR_CONNECT_CLIENT_REVOKED |-> CONNECT_CLASS + 16,
     FREERDP_ERROR_CONNECT_WRONG_PASSWORD |-> CONNECT_CLASS + 21,
     FREERDP_ERROR_CONNECT_ACCESS_DENIED |-> CONNECT_CLASS + 22,
     FREERDP_ERROR_CONNECT_ACCOUNT_RESTRICTION |-> CONNECT_CLASS + 23,
     FREERDP_ERROR_CONNECT_ACCOUNT_EXPIRED |-> CONNECT_CLASS + 25,
     FREERDP_ERROR_CONNECT_LOGON_TYPE_NOT_GRANTED |-> CONNECT_CLASS + 26,
     FREERDP_ERROR_CONNECT_NO_OR_MISSING_CREDENTIALS |-> CONNECT_CLASS + 27,
     ERRINFO_SUCCESS |-> 0,
     ERRINFO_RPC_INITIATED_DISCONNECT |-> 1,
     FREERDP_ERROR_RPC_INITIATED_DISCONNECT |-> ERRINFO_CLASS + 1]

FREERDP_ERROR_SUCCESS == FREERDP_ERROR.FREERDP_ERROR_SUCCESS
FREERDP_ERROR_NONE == FREERDP_ERROR.FREERDP_ERROR_NONE
FREERDP_ERROR_AUTHENTICATION_FAILED == FREERDP_ERROR.FREERDP_ERROR_AUTHENTICATION_FAILED
FREERDP_ERROR_DNS_NAME_NOT_FOUND == FREERDP_ERROR.FREERDP_ERROR_DNS_NAME_NOT_FOUND
FREERDP_ERROR_RPC_INITIATED_DISCONNECT == FREERDP_ERROR.FREERDP_ERROR_RPC_INITIATED_DISCONNECT
ERRINFO_SUCCESS == FREERDP_ERROR.ERRINFO_SUCCESS
ERRINFO_LOGOFF_BY_USER == FREERDP_ERROR.ERRINFO_LOGOFF_BY_USER
ERRINFO_RPC_INITIATED_DISCONNECT == FREERDP_ERROR.ERRINFO_RPC_INITIATED_DISCONNECT

\* #define ENTRY(x, y) { x, y, #y }
ENTRY(x, y) == [error |-> FREERDP_ERROR[x], code |-> SDL_EXIT_CODE[y], code_tag |-> y]

\* static const struct sdl_exit_code_map_t sdl_exit_code_map[]
sdl_exit_code_map ==
    <<ENTRY("FREERDP_ERROR_SUCCESS", "SDL_EXIT_SUCCESS"),
      ENTRY("FREERDP_ERROR_NONE", "SDL_EXIT_DISCONNECT"),
      ENTRY("FREERDP_ERROR_NONE", "SDL_EXIT_LOGOFF"),
      ENTRY("FREERDP_ERROR_NONE", "SDL_EXIT_IDLE_TIMEOUT"),
      ENTRY("FREERDP_ERROR_NONE", "SDL_EXIT_LOGON_TIMEOUT"),
      ENTRY("FREERDP_ERROR_NONE", "SDL_EXIT_CONN_REPLACED"),
      ENTRY("FREERDP_ERROR_NONE", "SDL_EXIT_OUT_OF_MEMORY"),
      ENTRY("FREERDP_ERROR_NONE", "SDL_EXIT_CONN_DENIED"),
      ENTRY("FREERDP_ERROR_NONE", "SDL_EXIT_CONN_DENIED_FIPS"),
      ENTRY("FREERDP_ERROR_NONE", "SDL_EXIT_USER_PRIVILEGES"),
      ENTRY("FREERDP_ERROR_NONE", "SDL_EXIT_FRESH_CREDENTIALS_REQUIRED"),
      ENTRY("ERRINFO_LOGOFF_BY_USER", "SDL_EXIT_DISCONNECT_BY_USER"),
      ENTRY("FREERDP_ERROR_NONE", "SDL_EXIT_UNKNOWN"),
      ENTRY("FREERDP_ERROR_NONE", "SDL_EXIT_LICENSE_INTERNAL"),
      ENTRY("FREERDP_ERROR_NONE", "SDL_EXIT_LICENSE_NO_LICENSE_SERVER"),
      ENTRY("FREERDP_ERROR_NONE", "SDL_EXIT_LICENSE_NO_LICENSE"),
      ENTRY("FREERDP_ERROR_NONE", "SDL_EXIT_LICENSE_BAD_CLIENT_MSG"),
      ENTRY("FREERDP_ERROR_NONE", "SDL_EXIT_LICENSE_HWID_DOESNT_MATCH"),
      ENTRY("FREERDP_ERROR_NONE", "SDL_EXIT_LICENSE_BAD_CLIENT"),
      ENTRY("FREERDP_ERROR_NONE", "SDL_EXIT_LICENSE_CANT_FINISH_PROTOCOL"),
      ENTRY("FREERDP_ERROR_NONE", "SDL_EXIT_LICENSE_CLIENT_ENDED_PROTOCOL"),
      ENTRY("FREERDP_ERROR_NONE", "SDL_EXIT_LICENSE_BAD_CLIENT_ENCRYPTION"),
      ENTRY("FREERDP_ERROR_NONE", "SDL_EXIT_LICENSE_CANT_UPGRADE"),
      ENTRY("FREERDP_ERROR_NONE", "SDL_EXIT_LICENSE_NO_REMOTE_CONNECTIONS"),
      ENTRY("FREERDP_ERROR_NONE", "SDL_EXIT_LICENSE_CANT_UPGRADE"),
      ENTRY("FREERDP_ERROR_NONE", "SDL_EXIT_RDP"),
      ENTRY("FREERDP_ERROR_NONE", "SDL_EXIT_PARSE_ARGUMENTS"),
      ENTRY("FREERDP_ERROR_NONE", "SDL_EXIT_MEMORY"),
      ENTRY("FREERDP_ERROR_NONE", "SDL_EXIT_PROTOCOL"),
      ENTRY("FREERDP_ERROR_NONE", "SDL_EXIT_CONN_FAILED"),
      ENTRY("FREERDP_ERROR_AUTHENTICATION_FAILED", "SDL_EXIT_AUTH_FAILURE"),
      ENTRY("FREERDP_ERROR_SECURITY_NEGO_CONNECT_FAILED", "SDL_EXIT_NEGO_FAILURE"),
      ENTRY("FREERDP_ERROR_CONNECT_LOGON_FAILURE", "SDL_EXIT_LOGON_FAILURE"),
      ENTRY("FREERDP_ERROR_CONNECT_ACCOUNT_LOCKED_OUT", "SDL_EXIT_ACCOUNT_LOCKED_OUT"),
      ENTRY("FREERDP_ERROR_PRE_CONNECT_FAILED", "SDL_EXIT_PRE_CONNECT_FAILED"),
      ENTRY("FREERDP_ERROR_CONNECT_UNDEFINED", "SDL_EXIT_CONNECT_UNDEFINED"),
      ENTRY("FREERDP_ERROR_POST_CONNECT_FAILED", "SDL_EXIT_POST_CONNECT_FAILED"),
      ENTRY("FREERDP_ERROR_DNS_ERROR", "SDL_EXIT_DNS_ERROR"),
      ENTRY("FREERDP_ERROR_DNS_NAME_NOT_FOUND", "SDL_EXIT_DNS_NAME_NOT_FOUND"),
      ENTRY("FREERDP_ERROR_CONNECT_FAILED", "SDL_EXIT_CONNECT_FAILED"),
      ENTRY("FREERDP_ERROR_MCS_CONNECT_INITIAL_ERROR", "SDL_EXIT_MCS_CONNECT_INITIAL_ERROR"),
      ENTRY("FREERDP_ERROR_TLS_CONNECT_FAILED", "SDL_EXIT_TLS_CONNECT_FAILED"),
      ENTRY("FREERDP_ERROR_INSUFFICIENT_PRIVILEGES", "SDL_EXIT_INSUFFICIENT_PRIVILEGES"),
      ENTRY("FREERDP_ERROR_CONNECT_CANCELLED", "SDL_EXIT_CONNECT_CANCELLED"),
      ENTRY("FREERDP_ERROR_CONNECT_TRANSPORT_FAILED", "SDL_EXIT_CONNECT_TRANSPORT_FAILED"),
      ENTRY("FREERDP_ERROR_CONNECT_PASSWORD_EXPIRED", "SDL_EXIT_CONNECT_PASSWORD_EXPIRED"),
      ENTRY("FREERDP_ERROR_CONNECT_PASSWORD_MUST_CHANGE", "SDL_EXIT_CONNECT_PASSWORD_MUST_CHANGE"),
      ENTRY("FREERDP_ERROR_CONNECT_KDC_UNREACHABLE", "SDL_EXIT_CONNECT_KDC_UNREACHABLE"),
      ENTRY("FREERDP_ERROR_CONNECT_ACCOUNT_DISABLED", "SDL_EXIT_CONNECT_ACCOUNT_DISABLED"),
      ENTRY("FREERDP_ERROR_CONNECT_PASSWORD_CERTAINLY_EXPIRED", "SDL_EXIT_CONNECT_PASSWORD_CERTAINLY_EXPIRED"),
      ENTRY("FREERDP_ERROR_CONNECT_CLIENT_REVOKED", "SDL_EXIT_CONNECT_CLIENT_REVOKED"),
      ENTRY("FREERDP_ERROR_CONNECT_WRONG_PASSWORD", "SDL_EXIT_CONNECT_WRONG_PASSWORD"),
      ENTRY("FREERDP_ERROR_CONNECT_ACCESS_DENIED", "SDL_EXIT_CONNECT_ACCESS_DENIED"),
      ENTRY("FREERDP_ERROR_CONNECT_ACCOUNT_RESTRICTION", "SDL_EXIT_CONNECT_ACCOUNT_RESTRICTION"),
      ENTRY("FREERDP_ERROR_CONNECT_ACCOUNT_EXPIRED", "SDL_EXIT_CONNECT_ACCOUNT_EXPIRED"),
      ENTRY("FREERDP_ERROR_CONNECT_LOGON_TYPE_NOT_GRANTED", "SDL_EXIT_CONNECT_LOGON_TYPE_NOT_GRANTED"),
      ENTRY("FREERDP_ERROR_CONNECT_NO_OR_MISSING_CREDENTIALS", "SDL_EXIT_CONNECT_NO_OR_MISSING_CREDENTIALS")>>

ARRAYSIZE(a) == Len(a)

\* a const char* that is NULL
NullTag == "(null)"

\* the for loops of sdl_map_entry_by_code and sdl_map_entry_by_error: the
\* index of the first entry from x on whose field matches, or NULL
RECURSIVE ScanByCode(_, _)
ScanByCode(x, code) ==
    IF x > ARRAYSIZE(sdl_exit_code_map) THEN NULL
    ELSE IF sdl_exit_code_map[x].code = code THEN x
    ELSE ScanByCode(x + 1, code)

RECURSIVE ScanByError(_, _)
ScanByError(x, error) ==
    IF x > ARRAYSIZE(sdl_exit_code_map) THEN NULL
    ELSE IF sdl_exit_code_map[x].error = error THEN x
    ELSE ScanByError(x + 1, error)

sdl_map_entry_by_code(code) == ScanByCode(1, code)

\* a slip in sdl_map_entry_by_error: the scan keeps the last match
sdl_map_entry_by_error_last_match(error) ==
    LET hits == {x \in 1..ARRAYSIZE(sdl_exit_code_map) :
                    sdl_exit_code_map[x].error = error}
    IN IF hits = {} THEN NULL ELSE CHOOSE x \in hits : \A y \in hits : y <= x

sdl_map_entry_by_error(error) == ScanByError(1, error)

\* a slip in sdl_map_error_to_exit_code: no fallback, SDL_EXIT_UNKNOWN
sdl_map_error_to_exit_code_no_fallback(error) ==
    LET entry == sdl_map_entry_by_error(error)
    IN IF entry # NULL THEN sdl_exit_code_map[entry].code
       ELSE SDL_EXIT_CODE.SDL_EXIT_UNKNOWN

sdl_map_error_to_exit_code(error) ==
    LET entry == sdl_map_entry_by_error(error)
    IN IF entry # NULL THEN sdl_exit_code_map[entry].code
       ELSE SDL_EXIT_CONN_FAILED

sdl_map_error_to_code_tag(error) ==
    LET entry == sdl_map_entry_by_error(error)
    IN IF entry # NULL THEN sdl_exit_code_map[entry].code_tag ELSE NullTag

sdl_map_to_code_tag(code) ==
    LET entry == sdl_map_entry_by_code(code)
    IN IF entry # NULL THEN sdl_exit_code_map[entry].code_tag ELSE NullTag

\* error_info_to_error: the exit code for the engine's error-info code
error_info_to_error(code) == sdl_map_error_to_exit_code(code)

\* values of freerdp_get_last_error after a failed freerdp_connect, and of
\* freerdp_error_info, that a run draws from: mapped and unmapped ones
LastErrorSamples ==
    {FREERDP_ERROR_SUCCESS, FREERDP_ERROR_AUTHENTICATION_FAILED,
     FREERDP_ERROR_DNS_NAME_NOT_FOUND, FREERDP_ERROR_RPC_INITIATED_DISCONNECT}
ErrorInfoSamples ==
    {ERRINFO_SUCCESS, ERRINFO_LOGOFF_BY_USER, ERRINFO_RPC_INITIATED_DISCONNECT}

\* a slip in sdl_client_new: update_complete created unsignaled
sdl_client_new_gate_unsignaled ==
    /\ initialize = FALSE
    /\ initialized = FALSE
    /\ update_complete = FALSE
    /\ windows_created = FALSE

\* sdl_client_new: the four CreateEventA(NULL, TRUE, <initial state>, NULL)
sdl_client_new ==
    /\ initialize = FALSE
    /\ initialized = FALSE
    /\ update_complete = TRUE
    /\ windows_created = FALSE

Init ==
    /\ authOnly \in BOOLEAN
    /\ hasPassword \in BOOLEAN
    /\ sdl_client_new
    /\ abortEvent = FALSE
    /\ queue = <<>>
    /\ ptPc = "start"
    /\ uiPc = "run_wait"
    /\ windowCount = 0
    /\ windows = [x \in 1..NumWindows |-> NULL]
    /\ primary = "null"
    /\ gdiReady = FALSE
    /\ invalidNull = TRUE
    /\ ninvalid = 0
    /\ connectRc = FALSE
    /\ epEvent = NoEvent
    /\ wfiRc = NoStatus
    /\ bpStatus = NoStatus
    /\ nextId = 1
    /\ nFrames = 0
    /\ nNative = 0
    /\ nResizes = 0
    /\ sdlInitCount = 0
    /\ cwRuns = 0
    /\ framesBegun = 0
    /\ framesCompleted = 0
    /\ dispatchLog = <<>>
    /\ runWait = "none"
    /\ monitorsDetected = FALSE
    /\ suppressOutput = FALSE
    /\ lastError = FREERDP_ERROR_SUCCESS
    /\ errorInfo = ERRINFO_SUCCESS
    /\ ultimatum = FALSE
    /\ exit_code = SDL_EXIT_SUCCESS
    /\ sdl_exit_code = 0
    /\ exitWrites = 0
    /\ waitFailed = FALSE
    /\ rcMain = -1


(* ------------------------ UI Thread: sdl_run --------------------------- *)

\* a slip in sdl_run: the status of the wait is not examined
sdl_run_wait_ignores_status ==
    /\ uiPc = "run_wait"
    /\ WaitReady(initialize, abortEvent)
    /\ LET status == WaitForMultipleObjects(initialize, abortEvent) IN
        runWait' = IF status = WAIT_OBJECT_0 THEN "init" ELSE "abort"
    /\ uiPc' = "sdl_init"
    /\ UNCHANGED <<exitState, suppressOutput, settings, events, queue, ptPc, sdlState, gdiState, connectRc,
                   epEvent, counters, sdlInitCount, cwRuns, framesBegun,
                   framesCompleted, dispatchLog, monitorsDetected, wfiRc,
                   bpStatus>>

\* sdl_run: WaitForMultipleObjects({initialize, abort}); abort alone returns -1
sdl_run_wait ==
    /\ uiPc = "run_wait"
    /\ WaitReady(initialize, abortEvent)
    /\ LET status == WaitForMultipleObjects(initialize, abortEvent) IN
        /\ runWait' = IF status = WAIT_OBJECT_0 THEN "init" ELSE "abort"
        /\ uiPc' = IF status = WAIT_OBJECT_0 THEN "sdl_init" ELSE "returned"
    /\ UNCHANGED <<exitState, suppressOutput, settings, events, queue, ptPc, sdlState, gdiState, connectRc,
                   epEvent, counters, sdlInitCount, cwRuns, framesBegun,
                   framesCompleted, dispatchLog, monitorsDetected,
                   wfiRc, bpStatus>>

\* sdl_run: SDL_Init(SDL_INIT_VIDEO)
sdl_run_init ==
    /\ uiPc = "sdl_init"
    /\ sdlInitCount' = sdlInitCount + 1
    /\ uiPc' = "set_initialized"
    /\ UNCHANGED <<exitState, suppressOutput, settings, events, queue, ptPc, sdlState, gdiState, connectRc,
                   epEvent, counters, cwRuns, framesBegun, framesCompleted,
                   dispatchLog, runWait, monitorsDetected, wfiRc, bpStatus>>

\* a slip in sdl_run: the SetEvent(sdl->initialized) is missing
sdl_run_set_initialized_missing ==
    /\ uiPc = "set_initialized"
    /\ uiPc' = "loop"
    /\ UNCHANGED <<exitState, suppressOutput, settings, events, queue, ptPc, sdlState, gdiState, connectRc,
                   epEvent, counters, history, wfiRc, bpStatus>>

\* sdl_run: SetEvent(sdl->initialized), then the event loop
sdl_run_set_initialized ==
    /\ uiPc = "set_initialized"
    /\ initialized' = TRUE
    /\ uiPc' = "loop"
    /\ UNCHANGED <<exitState, suppressOutput, settings, initialize, update_complete, windows_created,
                   abortEvent, queue, ptPc, sdlState, gdiState, connectRc,
                   epEvent, counters, history, wfiRc, bpStatus>>

\* sdl_run: while (!freerdp_shall_disconnect_context(...))
sdl_run_loop_check ==
    /\ uiPc = "loop"
    /\ uiPc' = IF freerdp_shall_disconnect_context THEN "cleanup" ELSE "poll"
    /\ UNCHANGED <<exitState, suppressOutput, settings, events, queue, ptPc, sdlState, gdiState, connectRc,
                   epEvent, counters, history, wfiRc, bpStatus>>

\* sdl_run: SDL_PollEvent found the queue empty
sdl_run_poll_empty ==
    /\ uiPc = "poll"
    /\ queue = <<>>
    /\ uiPc' = "loop"
    /\ UNCHANGED <<exitState, suppressOutput, settings, events, queue, ptPc, sdlState, gdiState, connectRc,
                   epEvent, counters, history, wfiRc, bpStatus>>

\* a slip in sdl_run: the event is handled and left in the queue
sdl_run_dispatch_peek ==
    /\ uiPc = "poll"
    /\ queue # <<>>
    /\ LET ev == SDL_PollEvent(queue) IN
        /\ dispatchLog' = IF ev.type \in UserEventTypes
                          THEN Append(dispatchLog, ev.id) ELSE dispatchLog
        /\ abortEvent' = IF ev.type = "SDL_QUIT" THEN TRUE ELSE abortEvent
        /\ IF ev.type = "SDL_WINDOWEVENT" /\ gdiReady
           THEN suppressOutput' \in BOOLEAN
           ELSE suppressOutput' = suppressOutput
        /\ epEvent' = IF ev.type \in UserEventTypes THEN ev ELSE NoEvent
        /\ uiPc' = CASE ev.type = "SDL_USEREVENT_UPDATE" -> "ep_check"
                     [] ev.type = "SDL_USEREVENT_CREATE_WINDOWS" -> "cw_count"
                     [] ev.type = "SDL_USEREVENT_WINDOW_RESIZEABLE" -> "set_resizable"
                     [] ev.type = "SDL_USEREVENT_WINDOW_FULLSCREEN" -> "set_fullscreen"
                     [] OTHER -> "loop"
    /\ UNCHANGED <<exitState, settings, initialize, initialized, update_complete,
                   windows_created, queue, ptPc, sdlState, gdiState, connectRc,
                   counters, sdlInitCount, cwRuns, framesBegun, framesCompleted,
                   runWait, monitorsDetected, wfiRc, bpStatus>>

\* sdl_run: SDL_PollEvent returned an event; switch (windowEvent.type)
sdl_run_dispatch ==
    /\ uiPc = "poll"
    /\ queue # <<>>
    /\ LET ev == SDL_PollEvent(queue) IN
        /\ queue' = Tail(queue)
        /\ dispatchLog' = IF ev.type \in UserEventTypes
                          THEN Append(dispatchLog, ev.id) ELSE dispatchLog
        /\ abortEvent' = IF ev.type = "SDL_QUIT" THEN TRUE ELSE abortEvent
        /\ IF ev.type = "SDL_WINDOWEVENT" /\ gdiReady
           THEN suppressOutput' \in BOOLEAN
           ELSE suppressOutput' = suppressOutput
        /\ epEvent' = IF ev.type \in UserEventTypes THEN ev ELSE NoEvent
        /\ uiPc' = CASE ev.type = "SDL_USEREVENT_UPDATE" -> "ep_check"
                     [] ev.type = "SDL_USEREVENT_CREATE_WINDOWS" -> "cw_count"
                     [] ev.type = "SDL_USEREVENT_WINDOW_RESIZEABLE" -> "set_resizable"
                     [] ev.type = "SDL_USEREVENT_WINDOW_FULLSCREEN" -> "set_fullscreen"
                     [] OTHER -> "loop"
    /\ UNCHANGED <<exitState, settings, initialize, initialized, update_complete,
                   windows_created, ptPc, sdlState, gdiState, connectRc,
                   counters, sdlInitCount, cwRuns, framesBegun, framesCompleted,
                   runWait, monitorsDetected, wfiRc, bpStatus>>

\* sdl_run: case SDL_USEREVENT_WINDOW_RESIZEABLE / SDL_USEREVENT_WINDOW_FULLSCREEN
sdl_run_window_command ==
    /\ uiPc \in {"set_resizable", "set_fullscreen"}
    /\ epEvent' = NoEvent
    /\ uiPc' = "loop"
    /\ UNCHANGED <<exitState, suppressOutput, settings, events, queue, ptPc, sdlState, gdiState, connectRc,
                   counters, history, wfiRc, bpStatus>>

(* ------------ UI Thread: sdl_end_paint_process (composite) ------------- *)

\* a slip in sdl_end_paint_process: the early tests return TRUE instead of
\* jumping to out
sdl_end_paint_process_check_returns_early ==
    /\ uiPc = "ep_check"
    /\ uiPc' = IF ~gdiReady THEN "crashed"
               ELSE IF suppressOutput \/ invalidNull \/ ninvalid < 1 THEN "loop"
               ELSE "ep_blit"
    /\ ptPc' = IF ~gdiReady THEN "crashed" ELSE ptPc
    /\ epEvent' = IF gdiReady /\ (suppressOutput \/ invalidNull \/ ninvalid < 1)
                  THEN NoEvent ELSE epEvent
    /\ UNCHANGED <<exitState, suppressOutput, settings, events, queue,
                   sdlState, gdiState, connectRc, counters, history, wfiRc,
                   bpStatus>>

\* sdl_end_paint_process: the asserts and the first tests; with the gdi
\* freed a WINPR_ASSERT fails and the process (both threads) ends
sdl_end_paint_process_check ==
    /\ uiPc = "ep_check"
    /\ uiPc' = IF ~gdiReady THEN "crashed"
               ELSE IF suppressOutput \/ invalidNull \/ ninvalid < 1 THEN "ep_signal"
               ELSE "ep_blit"
    /\ ptPc' = IF ~gdiReady THEN "crashed" ELSE ptPc
    /\ UNCHANGED <<exitState, suppressOutput, settings, events, queue, sdlState, gdiState, connectRc,
                   epEvent, counters, history, wfiRc, bpStatus>>

\* sdl_end_paint_process: the blit loop over the windows and the rectangles
sdl_end_paint_process_blit ==
    /\ uiPc = "ep_blit"
    /\ uiPc' = "ep_signal"
    /\ UNCHANGED <<exitState, suppressOutput, settings, events, queue, ptPc, sdlState, gdiState, connectRc,
                   epEvent, counters, sdlInitCount, cwRuns, framesBegun,
                   framesCompleted, dispatchLog, runWait,
                   monitorsDetected, wfiRc, bpStatus>>

\* a slip in sdl_end_paint_process: out: returns without SetEvent
sdl_end_paint_process_out_without_signal ==
    /\ uiPc = "ep_signal"
    /\ epEvent' = NoEvent
    /\ uiPc' = "loop"
    /\ UNCHANGED <<exitState, suppressOutput, settings, events, queue, ptPc,
                   sdlState, gdiState, connectRc, counters, history, wfiRc,
                   bpStatus>>

\* sdl_end_paint_process: out: SetEvent(sdl->update_complete)
sdl_end_paint_process_out ==
    /\ uiPc = "ep_signal"
    /\ update_complete' = TRUE
    /\ framesCompleted' = framesCompleted + 1
    /\ epEvent' = NoEvent
    /\ uiPc' = "loop"
    /\ UNCHANGED <<exitState, suppressOutput, settings, initialize, initialized, windows_created,
                   abortEvent, queue, ptPc, sdlState, gdiState, connectRc,
                   counters, sdlInitCount, cwRuns, framesBegun, dispatchLog,
                   runWait, monitorsDetected, wfiRc, bpStatus>>

(* ------------------ UI Thread: sdl_create_windows ---------------------- *)

\* sdl_create_windows: sdl->windowCount = 1
sdl_create_windows_count ==
    /\ uiPc = "cw_count"
    /\ windowCount' = NumWindows
    /\ uiPc' = "cw_create"
    /\ UNCHANGED <<exitState, suppressOutput, settings, events, queue, ptPc, windows, primary, gdiState,
                   connectRc, epEvent, counters, history, wfiRc, bpStatus>>

\* a slip in sdl_create_windows: a failed SDL_CreateWindow returns FALSE
\* instead of jumping to fail
sdl_create_windows_create_returns_on_failure ==
    /\ uiPc = "cw_create"
    /\ \E ok \in BOOLEAN :
        /\ windows' = [windows EXCEPT ![1] = IF ok THEN 1 ELSE NULL]
        /\ uiPc' = IF ok THEN "cw_signal" ELSE "loop"
        /\ epEvent' = IF ok THEN epEvent ELSE NoEvent
    /\ UNCHANGED <<exitState, suppressOutput, settings, events, queue, ptPc,
                   windowCount, primary, gdiState, connectRc, counters,
                   history, wfiRc, bpStatus>>

\* sdl_create_windows: SDL_CreateWindow for the window; NULL on failure
sdl_create_windows_create ==
    /\ uiPc = "cw_create"
    /\ \E ok \in BOOLEAN :
        windows' = [windows EXCEPT ![1] = IF ok THEN 1 ELSE NULL]
    /\ uiPc' = "cw_signal"
    /\ UNCHANGED <<exitState, suppressOutput, settings, events, queue, ptPc, windowCount, primary,
                   gdiState, connectRc, epEvent, counters, history,
                   wfiRc, bpStatus>>

\* sdl_create_windows: fail: SetEvent(sdl->windows_created)
sdl_create_windows_signal ==
    /\ uiPc = "cw_signal"
    /\ windows_created' = TRUE
    /\ cwRuns' = cwRuns + 1
    /\ epEvent' = NoEvent
    /\ uiPc' = "loop"
    /\ UNCHANGED <<exitState, suppressOutput, settings, initialize, initialized, update_complete,
                   abortEvent, queue, ptPc, sdlState, gdiState, connectRc,
                   counters, sdlInitCount, framesBegun, framesCompleted,
                   dispatchLog, runWait, monitorsDetected, wfiRc, bpStatus>>

(* ------------- UI Thread: sdl_cleanup_sdl and main's tail -------------- *)

\* sdl_cleanup_sdl: destroy the windows, free the primary surface, SDL_Quit
sdl_cleanup_sdl ==
    /\ uiPc = "cleanup"
    /\ windows' = [x \in 1..NumWindows |-> NULL]
    /\ primary' = "null"
    /\ windowCount' = 0
    /\ uiPc' = "returned"
    /\ UNCHANGED <<exitState, suppressOutput, settings, events, queue, ptPc, gdiState, connectRc, epEvent,
                   counters, sdlInitCount, cwRuns, framesBegun, framesCompleted,
                   dispatchLog, runWait, monitorsDetected, wfiRc, bpStatus>>

\* main -> freerdp_client_stop -> sdl_client_stop: SetEvent(abort event)
sdl_client_stop_abort ==
    /\ uiPc = "returned"
    /\ abortEvent' = TRUE
    /\ uiPc' = "joining"
    /\ UNCHANGED <<exitState, suppressOutput, settings, initialize, initialized, update_complete,
                   windows_created, queue, ptPc, sdlState, gdiState, connectRc,
                   epEvent, counters, history, wfiRc, bpStatus>>

\* a slip in sdl_client_stop: main goes on without waiting for the thread
sdl_client_stop_join_without_wait ==
    /\ uiPc = "joining"
    /\ rcMain' = sdl_exit_code
    /\ uiPc' = "exited"
    /\ UNCHANGED <<suppressOutput, settings, events, queue, ptPc, sdlState,
                   gdiState, connectRc, epEvent, counters, history, wfiRc,
                   bpStatus, lastError, errorInfo, ultimatum, exit_code,
                   sdl_exit_code, exitWrites, waitFailed>>

\* sdl_client_stop: WaitForSingleObject(sdl->thread, INFINITE); main returns
sdl_client_stop_join ==
    /\ uiPc = "joining"
    /\ ptPc = "done"
    /\ rcMain' = sdl_exit_code
    /\ uiPc' = "exited"
    /\ UNCHANGED <<suppressOutput, settings, events, queue, ptPc, sdlState,
                   gdiState, connectRc, epEvent, counters, history, wfiRc,
                   bpStatus, lastError, errorInfo, ultimatum, exit_code,
                   sdl_exit_code, exitWrites, waitFailed>>

UIStep ==
    \/ sdl_run_wait
    \/ sdl_run_init
    \/ sdl_run_set_initialized
    \/ sdl_run_loop_check
    \/ sdl_run_poll_empty
    \/ sdl_run_dispatch
    \/ sdl_run_window_command
    \/ sdl_end_paint_process_check
    \/ sdl_end_paint_process_blit
    \/ sdl_end_paint_process_out
    \/ sdl_create_windows_count
    \/ sdl_create_windows_create
    \/ sdl_create_windows_signal
    \/ sdl_cleanup_sdl
    \/ sdl_client_stop_abort
    \/ sdl_client_stop_join


(* ------------- Protocol Thread: freerdp_connect and its hooks ---------- *)

\* a slip in sdl_pre_connect: the handshake is requested before the test for
\* authentication-only mode
sdl_pre_connect_signals_initialize ==
    /\ ptPc = "start"
    /\ initialize' = TRUE
    /\ connectRc' = FALSE
    /\ ptPc' = IF ~authOnly THEN "wfi_wait"
               ELSE IF ~hasPassword THEN "connect_ret"
               ELSE "connecting"
    /\ UNCHANGED <<exitState, suppressOutput, settings, initialized,
                   update_complete, windows_created, abortEvent, queue, uiPc,
                   sdlState, gdiState, epEvent, counters, history, wfiRc,
                   bpStatus>>

\* sdl_client_thread_proc -> freerdp_connect -> sdl_pre_connect, up to the
\* wait of sdl_wait_for_init (SetEvent(sdl->initialize) included)
sdl_pre_connect ==
    /\ ptPc = "start"
    /\ initialize' = IF ~authOnly THEN TRUE ELSE initialize
    /\ connectRc' = FALSE
    /\ ptPc' = IF ~authOnly THEN "wfi_wait"
               ELSE IF ~hasPassword THEN "connect_ret"
               ELSE "connecting"
    /\ UNCHANGED <<exitState, suppressOutput, settings, initialized, update_complete, windows_created,
                   abortEvent, queue, uiPc, sdlState, gdiState, epEvent,
                   counters, history, wfiRc, bpStatus>>

\* a slip in sdl_wait_for_init: the default case returns TRUE as well
sdl_wait_for_init_returns_true ==
    /\ ptPc = "wfi_wait"
    /\ WaitReady(initialized, abortEvent)
    /\ wfiRc' = WaitForMultipleObjects(initialized, abortEvent)
    /\ ptPc' = "detect_monitors"
    /\ UNCHANGED <<exitState, suppressOutput, settings, events, queue, uiPc, sdlState, gdiState, connectRc,
                   epEvent, counters, history, bpStatus>>

\* sdl_wait_for_init: WaitForMultipleObjects({initialized, abort}) returns
sdl_wait_for_init ==
    /\ ptPc = "wfi_wait"
    /\ WaitReady(initialized, abortEvent)
    /\ LET rc == WaitForMultipleObjects(initialized, abortEvent) IN
        /\ wfiRc' = rc
        /\ ptPc' = IF rc = WAIT_OBJECT_0 THEN "detect_monitors" ELSE "connect_ret"
    /\ UNCHANGED <<exitState, suppressOutput, settings, events, queue, uiPc, sdlState, gdiState, connectRc,
                   epEvent, counters, sdlInitCount, cwRuns, framesBegun,
                   framesCompleted, dispatchLog, runWait, monitorsDetected,
                   bpStatus>>

\* sdl_pre_connect: sdl_detect_monitors and the size update
sdl_pre_connect_monitors ==
    /\ ptPc = "detect_monitors"
    /\ monitorsDetected' = TRUE
    /\ \E ok \in BOOLEAN : ptPc' = IF ok THEN "connecting" ELSE "connect_ret"
    /\ UNCHANGED <<exitState, suppressOutput, settings, events, queue, uiPc, sdlState, gdiState, connectRc,
                   epEvent, counters, sdlInitCount, cwRuns, framesBegun,
                   framesCompleted, dispatchLog, runWait, wfiRc, bpStatus>>

\* freerdp_connect between PreConnect and PostConnect: the connection
\* sequence of the protocol engine succeeds or fails
freerdp_connect_sequence ==
    /\ ptPc = "connecting"
    /\ \E ok \in BOOLEAN : ptPc' = IF ok THEN "post_connect" ELSE "connect_ret"
    /\ UNCHANGED <<exitState, suppressOutput, settings, events, queue, uiPc, sdlState, gdiState, connectRc,
                   epEvent, counters, history, wfiRc, bpStatus>>

\* sdl_post_connect in authentication-only mode
sdl_post_connect_auth_only ==
    /\ ptPc = "post_connect"
    /\ authOnly
    /\ connectRc' = hasPassword
    /\ ptPc' = "connect_ret"
    /\ UNCHANGED <<exitState, suppressOutput, settings, events, queue, uiPc, sdlState, gdiState, epEvent,
                   counters, history, wfiRc, bpStatus>>

\* a slip in sdl_wait_create_windows: the result of the push is ignored
sdl_wait_create_windows_push_ignores_failure ==
    /\ ptPc = "post_connect"
    /\ ~authOnly
    /\ windows_created' = FALSE
    /\ \E ok \in BOOLEAN :
        /\ queue' = IF ok
                    THEN sdl_push_user_event(queue, "SDL_USEREVENT_CREATE_WINDOWS", NULL)
                    ELSE queue
        /\ nextId' = IF ok THEN nextId + 1 ELSE nextId
    /\ ptPc' = "wcw_wait"
    /\ UNCHANGED <<exitState, suppressOutput, settings, initialize, initialized,
                   update_complete, abortEvent, uiPc, sdlState, gdiState,
                   connectRc, epEvent, nFrames, nNative, nResizes, history,
                   wfiRc, bpStatus>>

\* sdl_post_connect -> sdl_wait_create_windows, up to its wait:
\* ResetEvent(windows_created) and the push of SDL_USEREVENT_CREATE_WINDOWS
sdl_wait_create_windows_push ==
    /\ ptPc = "post_connect"
    /\ ~authOnly
    /\ windows_created' = FALSE
    /\ \E ok \in BOOLEAN :
        /\ queue' = IF ok
                    THEN sdl_push_user_event(queue, "SDL_USEREVENT_CREATE_WINDOWS", NULL)
                    ELSE queue
        /\ nextId' = IF ok THEN nextId + 1 ELSE nextId
        /\ ptPc' = IF ok THEN "wcw_wait" ELSE "connect_ret"
    /\ UNCHANGED <<exitState, suppressOutput, settings, initialize, initialized, update_complete,
                   abortEvent, uiPc, sdlState, gdiState, connectRc, epEvent,
                   nFrames, nNative, nResizes, history, wfiRc, bpStatus>>

\* the handle sdl_wait_create_windows waits on: handles[0] = sdl->initialized
sdl_wait_create_windows_handle == initialized

\* sdl_wait_create_windows: WaitForMultipleObjects({initialized, abort}) returns
sdl_wait_create_windows ==
    /\ ptPc = "wcw_wait"
    /\ WaitReady(sdl_wait_create_windows_handle, abortEvent)
    /\ LET rc == WaitForMultipleObjects(sdl_wait_create_windows_handle,
                                        abortEvent) IN
        /\ ptPc' = IF rc = WAIT_OBJECT_0 THEN "update_resizeable" ELSE "connect_ret"
    /\ UNCHANGED <<exitState, suppressOutput, settings, events, queue, uiPc, sdlState, gdiState, connectRc,
                   epEvent, counters, sdlInitCount, cwRuns, framesBegun,
                   framesCompleted, dispatchLog, runWait, monitorsDetected,
                   wfiRc, bpStatus>>

\* update_resizeable / update_fullscreen: one push per window below
\* sdl->windowCount, carrying sdl->windows[x].window; the loop stops at the
\* first failed push; sdl_post_connect ignores the result
PushWindowCommand(type, from, to) ==
    /\ ptPc = from
    /\ \E ok \in BOOLEAN :
        LET pushes == (windowCount >= 1) /\ ok IN
        /\ queue' = IF pushes THEN sdl_push_user_event(queue, type, windows[1])
                    ELSE queue
        /\ nextId' = IF pushes THEN nextId + 1 ELSE nextId
    /\ ptPc' = to
    /\ UNCHANGED <<exitState, suppressOutput, settings, events, uiPc, sdlState, gdiState, connectRc,
                   epEvent, nFrames, nNative, nResizes, history,
                   wfiRc, bpStatus>>

update_resizeable ==
    PushWindowCommand("SDL_USEREVENT_WINDOW_RESIZEABLE", "update_resizeable",
                      "update_fullscreen")

update_fullscreen ==
    PushWindowCommand("SDL_USEREVENT_WINDOW_FULLSCREEN", "update_fullscreen",
                      "gdi_init")

\* sdl_post_connect: gdi_init(instance, PIXEL_FORMAT_BGRA32)
sdl_post_connect_gdi_init ==
    /\ ptPc = "gdi_init"
    /\ \E ok \in BOOLEAN :
        /\ gdiReady' = ok
        /\ ptPc' = IF ok THEN "create_primary" ELSE "connect_ret"
    /\ invalidNull' = TRUE
    /\ ninvalid' = 0
    /\ UNCHANGED <<exitState, suppressOutput, settings, events, queue, uiPc, sdlState, connectRc, epEvent,
                   counters, history, wfiRc, bpStatus>>

\* sdl_post_connect -> sdl_create_primary: SDL_FreeSurface(sdl->primary) and
\* the new surface (NULL when SDL cannot create it)
sdl_post_connect_create_primary ==
    /\ ptPc = "create_primary"
    /\ \E ok \in BOOLEAN :
        /\ primary' = IF ok THEN "valid" ELSE "null"
        /\ ptPc' = IF ok THEN "register" ELSE "connect_ret"
    /\ UNCHANGED <<exitState, suppressOutput, settings, events, queue, uiPc, windowCount, windows,
                   gdiState, connectRc, epEvent, counters, sdlInitCount, cwRuns,
                   framesBegun, framesCompleted, dispatchLog, runWait,
                   monitorsDetected, wfiRc, bpStatus>>

\* sdl_post_connect: sdl_disp_new, sdl_register_pointer, the update hooks
sdl_post_connect_register ==
    /\ ptPc = "register"
    /\ \E ok \in BOOLEAN : connectRc' = ok
    /\ ptPc' = "connect_ret"
    /\ UNCHANGED <<exitState, suppressOutput, settings, events, queue, uiPc, sdlState, gdiState, epEvent,
                   counters, history, wfiRc, bpStatus>>

(* ------------- Protocol Thread: sdl_client_thread_proc ----------------- *)

\* a slip in sdl_client_thread_proc: the error-info test comes before the
\* test for FREERDP_ERROR_AUTHENTICATION_FAILED
thread_proc_after_connect_info_first ==
    /\ ptPc = "connect_ret"
    /\ LET mapped == IF ~connectRc THEN sdl_map_error_to_exit_code(lastError)
                     ELSE exit_code
           byInfo == IF mapped = SDL_EXIT_SUCCESS
                     THEN error_info_to_error(errorInfo)
                     ELSE mapped
       IN exit_code' =
            IF authOnly THEN mapped
            ELSE IF connectRc THEN exit_code
            ELSE IF errorInfo = ERRINFO_SUCCESS THEN SDL_EXIT_CONN_FAILED
            ELSE IF lastError = FREERDP_ERROR_AUTHENTICATION_FAILED
                 THEN SDL_EXIT_AUTH_FAILURE
            ELSE byInfo
    /\ abortEvent' = IF authOnly THEN TRUE ELSE abortEvent
    /\ ptPc' = IF authOnly \/ ~connectRc THEN "terminate" ELSE "loop"
    /\ UNCHANGED <<suppressOutput, settings, initialize, initialized,
                   update_complete, windows_created, queue, uiPc, sdlState,
                   gdiState, connectRc, epEvent, counters, history, wfiRc,
                   bpStatus, lastError, errorInfo, ultimatum, sdl_exit_code,
                   exitWrites, waitFailed, rcMain>>

\* sdl_client_thread_proc after freerdp_connect returned: authentication
\* only aborts and terminates, a failed connect terminates
thread_proc_after_connect ==
    /\ ptPc = "connect_ret"
    /\ LET mapped == IF ~connectRc THEN sdl_map_error_to_exit_code(lastError)
                     ELSE exit_code
           byInfo == IF mapped = SDL_EXIT_SUCCESS
                     THEN error_info_to_error(errorInfo)
                     ELSE mapped
       IN exit_code' =
            IF authOnly THEN mapped
            ELSE IF connectRc THEN exit_code
            ELSE IF lastError = FREERDP_ERROR_AUTHENTICATION_FAILED
                 THEN SDL_EXIT_AUTH_FAILURE
            ELSE IF errorInfo = ERRINFO_SUCCESS THEN SDL_EXIT_CONN_FAILED
            ELSE byInfo
    /\ abortEvent' = IF authOnly THEN TRUE ELSE abortEvent
    /\ ptPc' = IF authOnly \/ ~connectRc THEN "terminate" ELSE "loop"
    /\ UNCHANGED <<suppressOutput, settings, initialize, initialized,
                   update_complete, windows_created, queue, uiPc, sdlState,
                   gdiState, connectRc, epEvent, counters, history, wfiRc,
                   bpStatus, lastError, errorInfo, ultimatum, sdl_exit_code,
                   exitWrites, waitFailed, rcMain>>

\* while (!freerdp_shall_disconnect_context(context))
thread_proc_loop_check ==
    /\ ptPc = "loop"
    /\ ptPc' = IF freerdp_shall_disconnect_context THEN "loop_exit"
               ELSE "check_events"
    /\ UNCHANGED <<exitState, suppressOutput, settings, events, queue, uiPc, sdlState, gdiState, connectRc,
                   epEvent, counters, history, wfiRc, bpStatus>>

\* one loop iteration in which the engine calls no paint hook (a timeout, or
\* a successful reconnect)
thread_proc_iteration ==
    /\ ptPc = "check_events"
    /\ ptPc' = "loop"
    /\ UNCHANGED <<exitState, suppressOutput, settings, events, queue, uiPc, sdlState, gdiState, connectRc,
                   epEvent, counters, history, wfiRc, bpStatus>>

\* a slip in sdl_client_thread_proc: a failed wait leaves exit_code alone
thread_proc_break_keeps_exit_code ==
    /\ ptPc = "check_events"
    /\ \E status \in {"no_handles", "WAIT_FAILED", "check_failed"} :
        /\ waitFailed' = (status = "WAIT_FAILED")
        /\ exit_code' = exit_code
    /\ ptPc' = "loop_exit"
    /\ UNCHANGED <<suppressOutput, settings, events, queue, uiPc, sdlState,
                   gdiState, connectRc, epEvent, counters, history, wfiRc,
                   bpStatus, lastError, errorInfo, ultimatum, sdl_exit_code,
                   exitWrites, rcMain>>

\* the loop's break statements: no event handles, a failed wait without
\* reconnect, a failed freerdp_check_event_handles
thread_proc_break ==
    /\ ptPc = "check_events"
    /\ \E status \in {"no_handles", "WAIT_FAILED", "check_failed"} :
        /\ waitFailed' = (status = "WAIT_FAILED")
        /\ exit_code' = IF status = "WAIT_FAILED" /\ errorInfo = 0
                        THEN SDL_EXIT_CONN_FAILED ELSE exit_code
    /\ ptPc' = "loop_exit"
    /\ UNCHANGED <<suppressOutput, settings, events, queue, uiPc, sdlState,
                   gdiState, connectRc, epEvent, counters, history, wfiRc,
                   bpStatus, lastError, errorInfo, ultimatum, sdl_exit_code,
                   exitWrites, rcMain>>

\* freerdp_check_event_handles: the engine starts a paint cycle (BeginPaint)
engine_begin_paint ==
    /\ ptPc = "check_events"
    /\ nFrames < MaxFrames
    /\ nFrames' = nFrames + 1
    /\ ptPc' = "bp_wait"
    /\ UNCHANGED <<exitState, suppressOutput, settings, events, queue, uiPc, sdlState, gdiState, connectRc,
                   epEvent, nextId, nNative, nResizes, history,
                   wfiRc, bpStatus>>

\* a slip in sdl_begin_paint: the abort event is not among the handles
sdl_begin_paint_wait_without_abort ==
    /\ ptPc = "bp_wait"
    /\ update_complete
    /\ bpStatus' = WAIT_OBJECT_0
    /\ ptPc' = "bp_reset"
    /\ UNCHANGED <<exitState, suppressOutput, settings, events, queue, uiPc, sdlState, gdiState, connectRc,
                   epEvent, counters, history, wfiRc>>

\* a slip in sdl_begin_paint: handles[0] is sdl->initialized
sdl_begin_paint_wait_on_initialized ==
    /\ ptPc = "bp_wait"
    /\ WaitReady(initialized, abortEvent)
    /\ LET status == WaitForMultipleObjects(initialized, abortEvent) IN
        /\ bpStatus' = status
        /\ ptPc' = IF status = WAIT_OBJECT_0 THEN "bp_reset" ELSE "loop_exit"
    /\ UNCHANGED <<exitState, suppressOutput, settings, events, queue, uiPc, sdlState, gdiState, connectRc,
                   epEvent, counters, history, wfiRc>>

\* sdl_begin_paint: WaitForMultipleObjects({update_complete, abort}) returns;
\* a failed BeginPaint ends the paint cycle and the loop
sdl_begin_paint_wait ==
    /\ ptPc = "bp_wait"
    /\ WaitReady(update_complete, abortEvent)
    /\ LET status == WaitForMultipleObjects(update_complete, abortEvent) IN
        /\ bpStatus' = status
        /\ ptPc' = IF status = WAIT_OBJECT_0 THEN "bp_reset" ELSE "loop_exit"
    /\ UNCHANGED <<exitState, suppressOutput, settings, events, queue, uiPc, sdlState, gdiState, connectRc,
                   epEvent, counters, sdlInitCount, cwRuns, framesBegun,
                   framesCompleted, dispatchLog, runWait, monitorsDetected,
                   wfiRc>>

\* a slip in sdl_begin_paint: the ResetEvent(update_complete) is missing
sdl_begin_paint_reset_keeps_gate ==
    /\ ptPc = "bp_reset"
    /\ invalidNull' = TRUE
    /\ ninvalid' = 0
    /\ framesBegun' = framesBegun + 1
    /\ ptPc' = "painting"
    /\ UNCHANGED <<exitState, suppressOutput, settings, events, queue, uiPc, sdlState, gdiReady, connectRc,
                   epEvent, counters, sdlInitCount, cwRuns, framesCompleted,
                   dispatchLog, runWait, monitorsDetected, wfiRc, bpStatus>>

\* sdl_begin_paint: ResetEvent(update_complete), invalid->null = TRUE,
\* ninvalid = 0, return TRUE
sdl_begin_paint_reset ==
    /\ ptPc = "bp_reset"
    /\ update_complete' = FALSE
    /\ invalidNull' = TRUE
    /\ ninvalid' = 0
    /\ framesBegun' = framesBegun + 1
    /\ ptPc' = "painting"
    /\ UNCHANGED <<exitState, suppressOutput, settings, initialize, initialized, windows_created,
                   abortEvent, queue, uiPc, sdlState, gdiReady, connectRc,
                   epEvent, counters, sdlInitCount, cwRuns, framesCompleted,
                   dispatchLog, runWait, monitorsDetected, wfiRc, bpStatus>>

\* the decode pipeline marks the frame's invalid rectangles
engine_decode ==
    /\ ptPc = "painting"
    /\ \E n \in 0..MaxRects :
        /\ ninvalid' = n
        /\ invalidNull' = (n = 0)
    /\ ptPc' = "end_paint"
    /\ UNCHANGED <<exitState, suppressOutput, settings, events, queue, uiPc, sdlState, gdiReady, connectRc,
                   epEvent, counters, history, wfiRc, bpStatus>>

\* sdl_end_paint: push SDL_USEREVENT_UPDATE; a failed push fails EndPaint
sdl_end_paint ==
    /\ ptPc = "end_paint"
    /\ \E ok \in BOOLEAN :
        /\ queue' = IF ok THEN sdl_push_user_event(queue, "SDL_USEREVENT_UPDATE", NULL)
                    ELSE queue
        /\ nextId' = IF ok THEN nextId + 1 ELSE nextId
        /\ ptPc' = IF ok THEN "loop" ELSE "loop_exit"
    /\ UNCHANGED <<exitState, suppressOutput, settings, events, uiPc, sdlState, gdiState, connectRc,
                   epEvent, nFrames, nNative, nResizes, history,
                   wfiRc, bpStatus>>

\* freerdp_check_event_handles: the engine calls DesktopResize;
\* sdl_desktop_resize: gdi_resize
sdl_desktop_resize ==
    /\ ptPc = "check_events"
    /\ nResizes < MaxResizes
    /\ nResizes' = nResizes + 1
    /\ \E ok \in BOOLEAN : ptPc' = IF ok THEN "dr_free" ELSE "loop_exit"
    /\ UNCHANGED <<exitState, suppressOutput, settings, events, queue, uiPc, sdlState, gdiState, connectRc,
                   epEvent, nextId, nFrames, nNative, history, wfiRc, bpStatus>>

\* sdl_desktop_resize -> sdl_create_primary: SDL_FreeSurface(sdl->primary)
sdl_create_primary_free ==
    /\ ptPc = "dr_free"
    /\ primary' = IF primary = "valid" THEN "freed" ELSE primary
    /\ ptPc' = "dr_create"
    /\ UNCHANGED <<exitState, suppressOutput, settings, events, queue, uiPc, windowCount, windows,
                   gdiState, connectRc, epEvent, counters, sdlInitCount, cwRuns,
                   framesBegun, framesCompleted, dispatchLog, runWait,
                   monitorsDetected, wfiRc, bpStatus>>

\* sdl_desktop_resize -> sdl_create_primary: sdl->primary = SDL_CreateRGB...
sdl_create_primary_create ==
    /\ ptPc = "dr_create"
    /\ \E ok \in BOOLEAN :
        /\ primary' = IF ok THEN "valid" ELSE "null"
        /\ ptPc' = IF ok THEN "loop" ELSE "loop_exit"
    /\ UNCHANGED <<exitState, suppressOutput, settings, events, queue, uiPc, windowCount, windows,
                   gdiState, connectRc, epEvent, counters, sdlInitCount, cwRuns,
                   framesBegun, framesCompleted, dispatchLog, runWait,
                   monitorsDetected, wfiRc, bpStatus>>

\* after the loop: freerdp_disconnect -> sdl_post_disconnect -> gdi_free
thread_proc_disconnect ==
    /\ ptPc = "loop_exit"
    /\ exit_code' =
         IF exit_code # SDL_EXIT_SUCCESS THEN exit_code
         ELSE IF errorInfo = ERRINFO_LOGOFF_BY_USER /\ ultimatum
              THEN SDL_EXIT_LOGOFF
         ELSE error_info_to_error(errorInfo)
    /\ gdiReady' = FALSE
    /\ ptPc' = "terminate"
    /\ UNCHANGED <<suppressOutput, settings, events, queue, uiPc, sdlState,
                   invalidNull, ninvalid, connectRc, epEvent, counters, history,
                   wfiRc, bpStatus, lastError, errorInfo, ultimatum,
                   sdl_exit_code, exitWrites, waitFailed, rcMain>>

\* terminate: the thread procedure returns
thread_proc_terminate ==
    /\ ptPc = "terminate"
    /\ sdl_exit_code' = exit_code
    /\ exitWrites' = exitWrites + 1
    /\ ptPc' = "done"
    /\ UNCHANGED <<suppressOutput, settings, events, queue, uiPc, sdlState,
                   gdiState, connectRc, epEvent, counters, history, wfiRc,
                   bpStatus, lastError, errorInfo, ultimatum, exit_code,
                   waitFailed, rcMain>>

PTStep ==
    \/ sdl_pre_connect
    \/ sdl_wait_for_init
    \/ sdl_pre_connect_monitors
    \/ freerdp_connect_sequence
    \/ sdl_post_connect_auth_only
    \/ sdl_wait_create_windows_push
    \/ sdl_wait_create_windows
    \/ update_resizeable
    \/ update_fullscreen
    \/ sdl_post_connect_gdi_init
    \/ sdl_post_connect_create_primary
    \/ sdl_post_connect_register
    \/ thread_proc_after_connect
    \/ thread_proc_loop_check
    \/ thread_proc_iteration
    \/ thread_proc_break
    \/ engine_begin_paint
    \/ sdl_begin_paint_wait
    \/ sdl_begin_paint_reset
    \/ engine_decode
    \/ sdl_end_paint
    \/ sdl_desktop_resize
    \/ sdl_create_primary_free
    \/ sdl_create_primary_create
    \/ thread_proc_disconnect
    \/ thread_proc_terminate

(* ----------------------------- environment ----------------------------- *)

\* the windowing system queues a native event once SDL is initialized
native_event ==
    /\ initialized
    /\ uiPc \notin {"returned", "joining", "exited", "crashed"}
    /\ nNative < MaxNative
    /\ nNative' = nNative + 1
    /\ \E t \in NativeEventTypes :
        queue' = Append(queue, [type |-> t, id |-> 0, window |-> NULL])
    /\ UNCHANGED <<exitState, suppressOutput, settings, events, ptPc, uiPc, sdlState, gdiState, connectRc,
                   epEvent, nextId, nFrames, nResizes, history,
                   wfiRc, bpStatus>>

\* external disconnect logic sets the abort event
external_abort ==
    /\ ~abortEvent
    /\ uiPc \notin {"exited", "crashed"}
    /\ abortEvent' = TRUE
    /\ UNCHANGED <<exitState, suppressOutput, settings, initialize, initialized, update_complete,
                   windows_created, queue, ptPc, uiPc, sdlState, gdiState,
                   connectRc, epEvent, counters, history, wfiRc, bpStatus>>

\* freerdp_connect fails having recorded a last error and an error-info code
engine_set_last_error ==
    /\ ptPc = "connect_ret"
    /\ ~connectRc
    /\ lastError = FREERDP_ERROR_SUCCESS
    /\ errorInfo = ERRINFO_SUCCESS
    /\ \E error \in LastErrorSamples, code \in ErrorInfoSamples :
        /\ <<error, code>> # <<lastError, errorInfo>>
        /\ lastError' = error
        /\ errorInfo' = code
    /\ UNCHANGED <<suppressOutput, settings, events, queue, ptPc, uiPc,
                   sdlState, gdiState, locals, counters, history, ultimatum,
                   exit_code, sdl_exit_code, exitWrites, waitFailed, rcMain>>

\* the engine receives an error-info code (and a disconnect ultimatum) from
\* the server while the Protocol Thread is in its loop
engine_set_error_info ==
    /\ ptPc = "check_events"
    /\ errorInfo = ERRINFO_SUCCESS
    /\ \E code \in ErrorInfoSamples \ {ERRINFO_SUCCESS} :
        /\ errorInfo' = code
        /\ ultimatum' \in (IF code = ERRINFO_LOGOFF_BY_USER THEN BOOLEAN
                            ELSE {FALSE})
    /\ UNCHANGED <<suppressOutput, settings, events, queue, ptPc, uiPc,
                   sdlState, gdiState, locals, counters, history, lastError,
                   exit_code, sdl_exit_code, exitWrites, waitFailed, rcMain>>

EnvStep == native_event \/ external_abort

Next == UIStep \/ PTStep \/ EnvStep

Spec == Init /\ [][Next]_vars

\* Liveness: both threads keep running while they can take a step. Native
\* input is left out of this specification: the one effect an input event
\* has on the threads, SDL_QUIT setting the abort event, is external_abort.
LiveNext == UIStep \/ PTStep \/ external_abort

LiveSpec == Init /\ [][LiveNext]_vars /\ WF_vars(UIStep) /\ WF_vars(PTStep)

\* Shutdown: the runs of LiveSpec in which the abort event is set sooner or
\* later (by the engine's disconnect logic or by the user), whatever the
\* threads do; the runs most favourable to termination.
StopSpec ==
    Init /\ [][LiveNext]_vars /\ WF_vars(UIStep) /\ WF_vars(PTStep)
        /\ WF_vars(external_abort)

\* Exit codes: the runs in which the engine records error codes. Native
\* input is left out as in LiveNext.
ExitNext ==
    UIStep \/ PTStep \/ external_abort \/ engine_set_last_error
        \/ engine_set_error_info

ExitSpec == Init /\ [][ExitNext]_vars


(* ============================== claims ================================== *)

Compositing == uiPc \in {"ep_check", "ep_blit", "ep_signal"}
InPaintCycle == ptPc \in {"bp_reset", "painting", "end_paint"}
PendingUpdates ==
    Cardinality({i \in DOMAIN queue : queue[i].type = "SDL_USEREVENT_UPDATE"})

\* C1: Frame Gate ordering. sdl_begin_paint for frame N+1 returns success
\* only after the SetEvent(update_complete) that ends sdl_end_paint_process
\* for frame N has run: the wait has returned WAIT_OBJECT_0 for at most one
\* frame more than has been completed, and while a begun frame is not
\* completed the gate is unsignaled, so a second sdl_begin_paint blocks.
C1_FrameGateOrdering ==
    /\ framesBegun <= framesCompleted + 1
    /\ (ptPc = "bp_reset") => (framesBegun = framesCompleted)
    /\ (framesBegun > framesCompleted) => ~update_complete

\* C1 witness: the second frame has begun after the first was completed
C1_Witness ==
    /\ ptPc = "painting"
    /\ framesBegun = 2
    /\ framesCompleted = 1

\* C2: mutual exclusion of writer and compositor. The UI Thread is never
\* inside sdl_end_paint_process while the Protocol Thread is between a
\* successful wait of sdl_begin_paint and the return of sdl_end_paint, and
\* at most one composite pass is queued or executing.
C2_WriterCompositorExclusion ==
    /\ ~(Compositing /\ InPaintCycle)
    /\ PendingUpdates + (IF Compositing THEN 1 ELSE 0) <= 1

\* C2 witness: the UI Thread blits while the Protocol Thread is held in the
\* wait of the next sdl_begin_paint
C2_Witness ==
    /\ uiPc = "ep_blit"
    /\ ptPc = "bp_wait"

\* C3: sdl_wait_create_windows returns success only after the UI Thread
\* has executed sdl_create_windows and every window exists. (The state
\* "update_resizeable" is the one a TRUE return leads to.)
C3_RequestWindowsBlocks ==
    (ptPc = "update_resizeable") =>
        (cwRuns >= 1 /\ \A x \in 1..NumWindows : windows[x] # NULL)

ProtocolWaits == {"wfi_wait", "wcw_wait", "bp_wait"}
WaitFailed == {"connect_ret", "loop_exit"}
\* handles[0] of the wait the Protocol Thread is in
OwnHandle ==
    CASE ptPc = "wfi_wait" -> initialized
      [] ptPc = "wcw_wait" -> sdl_wait_create_windows_handle
      [] ptPc = "bp_wait" -> update_complete
      [] OTHER -> FALSE

C5_SurfacesOwnedByUI ==
    [][(PTStep /\ primary # "null") => (primary' = primary)]_vars

\* C6: sdl_wait_for_init returns success only when the UI Thread has done
\* SDL_Init and signaled `initialized`; sdl_pre_connect reaches
\* sdl_detect_monitors only after a successful return; woken by abort it
\* returns failure and the connect fails without monitor detection.
C6_RequestInit ==
    /\ (wfiRc = WAIT_OBJECT_0) => (initialized /\ sdlInitCount = 1)
    /\ (ptPc = "detect_monitors" \/ monitorsDetected) => (wfiRc = WAIT_OBJECT_0)
    /\ (wfiRc = WAIT_OBJECT_1) =>
            (~monitorsDetected /\ ptPc \in {"connect_ret", "terminate", "done"})

\* C6 witness: the wait was woken by abort and the thread has terminated
C6_Witness ==
    /\ wfiRc = WAIT_OBJECT_1
    /\ ptPc = "done"

UiDispatching == uiPc \in {"poll", "ep_check", "ep_blit", "ep_signal",
                           "cw_count", "cw_create", "cw_signal",
                           "set_resizable", "set_fullscreen"}

\* C7: UI Thread startup order. SDL_Init runs at most once and only after
\* `initialize` was signaled; `initialized` is signaled only after SDL_Init;
\* no event or command is polled or handled before `initialized`; released
\* by abort alone, sdl_run returns without SDL_Init.
C7_UIStartupOrder ==
    /\ sdlInitCount <= 1
    /\ (sdlInitCount = 1 \/ uiPc = "sdl_init") => (initialize /\ runWait = "init")
    /\ initialized => (sdlInitCount = 1)
    /\ (UiDispatching \/ dispatchLog # <<>>) => initialized
    /\ (runWait = "abort") =>
            (sdlInitCount = 0 /\ ~initialized
             /\ uiPc \in {"returned", "joining", "exited"})

\* C7 witness: after the startup the loop has handled a command
C7_Witness ==
    /\ sdlInitCount = 1
    /\ initialized
    /\ Len(dispatchLog) >= 1

\* C8: handshake liveness. Unless the abort event is set, a Protocol
\* Thread waiting in sdl_wait_for_init eventually gets WAIT_OBJECT_0, i.e.
\* returns success.
C8_HandshakeLiveness ==
    (ptPc = "wfi_wait") ~> ((wfiRc = WAIT_OBJECT_0) \/ abortEvent)

\* C8 witness: the handshake has succeeded with no abort
C8_Witness ==
    /\ wfiRc = WAIT_OBJECT_0
    /\ ptPc = "detect_monitors"
    /\ ~abortEvent

PendingCommands == SelectSeq(queue, LAMBDA e : e.type \in UserEventTypes)

\* C9: command FIFO. The i-th command sdl_run handles is the i-th command
\* pushed (ids are given in push order), none twice, and the commands still
\* queued are the following ones in push order, wherever native events sit
\* in the queue.
C9_CommandFIFO ==
    /\ \A i \in 1..Len(dispatchLog) : dispatchLog[i] = i
    /\ \A i \in 1..Len(PendingCommands) :
            PendingCommands[i].id = Len(dispatchLog) + i
    /\ Len(dispatchLog) + Len(PendingCommands) = nextId - 1

\* C9 witness: three commands handled in a run with a native event
C9_Witness ==
    /\ Len(dispatchLog) >= 3
    /\ nNative >= 1

\* C10: first frame does not block. The gate is signaled from construction,
\* so the wait of the first sdl_begin_paint finds it signaled and returns
\* WAIT_OBJECT_0; when that call returns, the gate is unsignaled and the
\* invalid-region tracker is empty.
C10_FirstFrameDoesNotBlock ==
    /\ (ptPc = "bp_wait" /\ nFrames = 1) => update_complete
    /\ (nFrames = 1 /\ bpStatus # NoStatus) => (bpStatus = WAIT_OBJECT_0)
    /\ (ptPc = "painting" /\ framesBegun = 1) =>
            (~update_complete /\ invalidNull /\ ninvalid = 0)

\* C10 witness: the first sdl_begin_paint has returned TRUE with no abort
C10_Witness ==
    /\ ptPc = "painting"
    /\ framesBegun = 1
    /\ ~abortEvent

\* C11: every run of sdl_end_paint_process ends in SetEvent(update_complete).
\* From the first tests, suppressed output, a null invalid region or fewer
\* than one rectangle go to out: without the blit loop; the blit loop goes
\* to out: as well; out: signals the gate and the handler returns. (With
\* the gdi freed the asserts at the top end the process before any path.)
C11_CompositeAlwaysSignals ==
    [][/\ (uiPc = "ep_check" /\ uiPc' # uiPc /\ gdiReady)
            => (uiPc' = IF suppressOutput \/ invalidNull \/ ninvalid < 1
                        THEN "ep_signal" ELSE "ep_blit")
       /\ (uiPc = "ep_blit" /\ uiPc' # uiPc) => (uiPc' = "ep_signal")
       /\ (uiPc = "ep_signal" /\ uiPc' # uiPc)
            => (update_complete' /\ framesCompleted' = framesCompleted + 1)
       /\ (Compositing /\ uiPc' \notin {"ep_check", "ep_blit", "ep_signal", "crashed"})
            => update_complete']_vars

\* C11 witness: a composite pass with rectangles to blit was skipped for
\* suppressed output and signaled the gate
C11_Witness ==
    /\ suppressOutput
    /\ ~invalidNull
    /\ ninvalid >= 1
    /\ framesCompleted = framesBegun
    /\ framesCompleted >= 1
    /\ update_complete

\* C12: frame cycle liveness. While the abort event is not set, a queued
\* SDL_USEREVENT_UPDATE leads to the SetEvent(update_complete) of its
\* composite pass, and a sdl_begin_paint that waits for the gate leads to
\* its successful return; the only other outcome is that the Protocol
\* Thread has left its loop (no further BeginPaint follows).
PtLeftLoop == ptPc \in {"loop_exit", "terminate", "done", "crashed"}
CreatingWindows == uiPc \in {"cw_count", "cw_create", "cw_signal"}
C13_WindowsCreatedAlwaysSignaled ==
    [][(CreatingWindows /\ uiPc' \notin {"cw_count", "cw_create", "cw_signal"})
            => (windows_created' /\ cwRuns' = cwRuns + 1)]_vars

\* C13 witness: SDL_CreateWindow failed and windows_created is signaled
C13_Witness ==
    /\ cwRuns = 1
    /\ windowCount = NumWindows
    /\ windows[1] = NULL
    /\ windows_created

(* ------------------------------ exit codes ----------------------------- *)

\* freerdp_connect failed and the thread procedure has terminated
SetupFailed == ptPc = "done" /\ ~connectRc
\* the table has an entry for the error / maps it to a specific exit code
InTable(error) ==
    \E x \in 1..ARRAYSIZE(sdl_exit_code_map) : sdl_exit_code_map[x].error = error
MapsToSpecific(error) ==
    /\ InTable(error)
    /\ sdl_map_error_to_exit_code(error) \notin {SDL_EXIT_SUCCESS, SDL_EXIT_CONN_FAILED}
\* the errors the lookups are examined on: every error of the table and
\* the sampled ones, among them errors without an entry
ErrorDomain ==
    {sdl_exit_code_map[x].error : x \in 1..ARRAYSIZE(sdl_exit_code_map)}
        \cup LastErrorSamples \cup ErrorInfoSamples

\* C14: most specific exit code wins. After a failed connection setup with a
\* last error the table maps to a specific exit code, sdl->exit_code is that
\* code; SDL_EXIT_CONN_FAILED is recorded only without a more specific error.
C14_MostSpecificExitCode ==
    (SetupFailed /\ MapsToSpecific(lastError))
        => (sdl_exit_code = sdl_map_error_to_exit_code(lastError))

\* C15: sdl->exit_code is assigned once, by the step with which the thread
\* procedure returns, with the value of its local exit_code; main reads it
\* (rc = sdl->exit_code) only after sdl_client_stop has joined the thread.
C15_ExitCodeWrittenOnceReadAfterJoin ==
    /\ exitWrites <= 1
    /\ (ptPc = "done") => (exitWrites = 1 /\ sdl_exit_code = exit_code)
    /\ (ptPc \notin {"done", "crashed"}) => (exitWrites = 0)
    /\ (uiPc = "exited") => (ptPc = "done" /\ exitWrites = 1 /\ rcMain = sdl_exit_code)
    /\ (uiPc # "exited") => (rcMain = -1)

\* C15 witness: main has read an exit code other than SDL_EXIT_SUCCESS
C15_Witness ==
    /\ uiPc = "exited"
    /\ rcMain = SDL_EXIT_CONN_FAILED
    /\ waitFailed

\* every entry is found by its error and by its code
TableConsistent ==
    \A x \in 1..ARRAYSIZE(sdl_exit_code_map) :
        /\ sdl_map_error_to_exit_code(sdl_exit_code_map[x].error)
                = sdl_exit_code_map[x].code
        /\ sdl_map_to_code_tag(sdl_exit_code_map[x].code)
                = sdl_exit_code_map[x].code_tag

\* C16 as claimed: for every entry of sdl_exit_code_map,
\* sdl_map_error_to_exit_code(error) is its code and
\* sdl_map_to_code_tag(code) is its tag; the thread procedure records the
\* looked-up code when authentication-only setup fails.
C16_TableConsistency ==
    /\ TableConsistent
    /\ (SetupFailed /\ authOnly)
        => (sdl_exit_code \in {sdl_exit_code_map[x].code :
                                x \in 1..ARRAYSIZE(sdl_exit_code_map)})

\* first match wins: the lookup by error gives the code of the first entry
\* with that error; the lookup by code gives every entry's own tag
TableFirstMatchWins ==
    \A x \in 1..ARRAYSIZE(sdl_exit_code_map) :
        /\ (\A y \in 1..(x - 1) : sdl_exit_code_map[y].error # sdl_exit_code_map[x].error)
            => (sdl_map_error_to_exit_code(sdl_exit_code_map[x].error)
                    = sdl_exit_code_map[x].code)
        /\ (sdl_exit_code_map[x].error = FREERDP_ERROR_NONE)
            => (sdl_map_error_to_exit_code(sdl_exit_code_map[x].error)
                    = SDL_EXIT_CODE.SDL_EXIT_DISCONNECT)
        /\ sdl_map_to_code_tag(sdl_exit_code_map[x].code)
                = sdl_exit_code_map[x].code_tag

\* C16 as amended: for every entry, sdl_map_to_code_tag(code) is its tag,
\* and sdl_map_error_to_exit_code(error) is the code of the first entry
\* with that error (its own code for every entry but the later ones of
\* FREERDP_ERROR_NONE, which give SDL_EXIT_DISCONNECT); the thread procedure
\* records the looked-up code when authentication-only setup fails.
C16_TableFirstMatch ==
    /\ TableFirstMatchWins
    /\ (SetupFailed /\ authOnly)
        => (sdl_exit_code = sdl_map_error_to_exit_code(lastError))

\* C16 witness: the code of a table entry was looked up and recorded
C16_Witness ==
    /\ SetupFailed
    /\ authOnly
    /\ lastError = FREERDP_ERROR_DNS_NAME_NOT_FOUND
    /\ sdl_exit_code = SDL_EXIT_CODE.SDL_EXIT_DNS_NAME_NOT_FOUND

\* the tag by error against the composition of the two lookups
TagLookupComposes ==
    \A e \in ErrorDomain :
        sdl_map_error_to_code_tag(e)
            = sdl_map_to_code_tag(sdl_map_error_to_exit_code(e))

\* C17: sdl_map_error_to_code_tag(e) is
\* sdl_map_to_code_tag(sdl_map_error_to_exit_code(e)) for every error e,
\* with or without an entry in the table; so the tag of the last error is
\* the tag of the exit code recorded for it.
C17_TagLookupComposes ==
    /\ TagLookupComposes
    /\ (SetupFailed /\ authOnly)
        => (sdl_map_error_to_code_tag(lastError) = sdl_map_to_code_tag(sdl_exit_code))

\* the fallback of sdl_map_error_to_exit_code on the examined errors
UnknownErrorsFallBack ==
    \A e \in ErrorDomain :
        ~InTable(e) => (sdl_map_error_to_exit_code(e) = SDL_EXIT_CONN_FAILED)

\* C18: for every error that is the error of no table entry,
\* sdl_map_error_to_exit_code returns SDL_EXIT_CONN_FAILED; so does the exit
\* code recorded for such a last error when authentication-only setup fails.
C18_UnknownErrorFallsBack ==
    /\ UnknownErrorsFallBack
    /\ (SetupFailed /\ authOnly /\ ~InTable(lastError))
        => (sdl_exit_code = SDL_EXIT_CONN_FAILED)

\* C18 witness: a last error without an entry was recorded as CONN_FAILED
C18_Witness ==
    /\ SetupFailed
    /\ authOnly
    /\ lastError = FREERDP_ERROR_RPC_INITIATED_DISCONNECT
    /\ sdl_exit_code = SDL_EXIT_CONN_FAILED

\* C19: after a failed connection setup of a session that is not
\* authentication-only, with last error FREERDP_ERROR_AUTHENTICATION_FAILED,
\* sdl->exit_code is SDL_EXIT_AUTH_FAILURE for every error-info code, and
\* SDL_EXIT_AUTH_FAILURE is not SDL_EXIT_CONN_FAILED.
C19_AuthFailureExitCode ==
    /\ SDL_EXIT_AUTH_FAILURE # SDL_EXIT_CONN_FAILED
    /\ (SetupFailed /\ ~authOnly /\ lastError = FREERDP_ERROR_AUTHENTICATION_FAILED)
        => (sdl_exit_code = SDL_EXIT_AUTH_FAILURE)

\* C19 witness: authentication failed with error-info ERRINFO_SUCCESS
C19_Witness ==
    /\ SetupFailed
    /\ ~authOnly
    /\ lastError = FREERDP_ERROR_AUTHENTICATION_FAILED
    /\ errorInfo = ERRINFO_SUCCESS
    /\ sdl_exit_code = SDL_EXIT_AUTH_FAILURE

\* C20 as claimed: after WAIT_FAILED without reconnect the thread leaves the
\* loop and records SDL_EXIT_CONN_FAILED for error-info 0 and the exit code
\* mapped from the error-info code otherwise.
C20_WaitFailureExitCode ==
    /\ waitFailed => PtLeftLoop
    /\ (ptPc = "done" /\ waitFailed)
        => (sdl_exit_code = IF errorInfo = 0 THEN SDL_EXIT_CONN_FAILED
                            ELSE sdl_map_error_to_exit_code(errorInfo))

\* C20 as amended: as claimed, except that error-info ERRINFO_LOGOFF_BY_USER
\* with a user-requested disconnect ultimatum records SDL_EXIT_LOGOFF; and
\* an iteration that goes back to the loop test (a timeout among them)
\* leaves exit_code alone.
C20_WaitFailureExitCodeLogoff ==
    /\ [](waitFailed => PtLeftLoop)
    /\ []((ptPc = "done" /\ waitFailed)
            => (sdl_exit_code =
                    IF errorInfo = 0 THEN SDL_EXIT_CONN_FAILED
                    ELSE IF errorInfo = ERRINFO_LOGOFF_BY_USER /\ ultimatum
                         THEN SDL_EXIT_LOGOFF
                    ELSE sdl_map_error_to_exit_code(errorInfo)))
    /\ [][(ptPc = "check_events" /\ ptPc' = "loop")
            => (exit_code' = exit_code /\ exit_code = SDL_EXIT_SUCCESS)]_vars

\* C20 witness: the wait failed with error-info 0 and CONN_FAILED is recorded
C20_Witness ==
    /\ ptPc = "done"
    /\ waitFailed
    /\ errorInfo = 0
    /\ sdl_exit_code = SDL_EXIT_CONN_FAILED

(* ------------------------- setup and teardown -------------------------- *)

\* the UI Thread has left sdl_run
UiLeftRun == uiPc \in {"returned", "joining", "exited"}
\* no window exists and sdl_create_windows never ran
NoWindowEver ==
    /\ cwRuns = 0
    /\ windowCount = 0
    /\ \A x \in 1..NumWindows : windows[x] = NULL
\* no user event was ever pushed
NothingEnqueued == nextId = 1 /\ PendingCommands = <<>> /\ dispatchLog = <<>>

\* C21: authentication-only mode without a password. sdl_pre_connect returns
\* FALSE without SetEvent(sdl->initialize) and without a push; in such a run
\* SDL_Init never runs, sdl_create_windows never runs and no window exists,
\* and both threads terminate (the thread procedure returns, main returns).
C21_AuthOnlyShortCircuit ==
    /\ []((authOnly /\ ~hasPassword)
            => (/\ ~initialize /\ ~initialized
                /\ NothingEnqueued
                /\ sdlInitCount = 0
                /\ NoWindowEver
                /\ ptPc \in {"start", "connect_ret", "terminate", "done"}))
    /\ ((authOnly /\ ~hasPassword) ~> (ptPc = "done" /\ uiPc = "exited"))

\* C21 witness: the authentication-only run without a password has ended
C21_Witness ==
    /\ authOnly
    /\ ~hasPassword
    /\ ptPc = "done"
    /\ uiPc = "exited"
    /\ runWait = "abort"

C23_TeardownComplete ==
    (uiPc = "exited" /\ ptPc = "done" /\ runWait = "init")
        => (/\ windowCount = 0
            /\ \A x \in 1..NumWindows : windows[x] = NULL
            /\ primary = "null")

\* C24: no replacement of the primary surface during a composite. No step
\* of sdl_desktop_resize -> sdl_create_primary (SDL_FreeSurface, then the
\* new surface) is taken while a SDL_USEREVENT_UPDATE is queued or the UI
\* Thread is inside sdl_end_paint_process.
C24_NoReplaceDuringComposite ==
    [][(ptPc \in {"dr_free", "dr_create"} /\ ptPc' # ptPc /\ primary' # primary)
            => ~(PendingUpdates > 0 \/ Compositing)]_vars

\* sdl_post_connect has returned TRUE in a session with windows
PostConnectSucceeded == ptPc = "connect_ret" /\ connectRc /\ ~authOnly

\* C25: window commands target existing windows. Every
\* SDL_USEREVENT_WINDOW_RESIZEABLE / SDL_USEREVENT_WINDOW_FULLSCREEN that
\* sdl_run handles carries the handle of a created window, never NULL; and
\* when sdl_post_connect has succeeded, one command of each kind has been
\* pushed for every window (besides the one SDL_USEREVENT_CREATE_WINDOWS).
C25_WindowCommandsTargetWindows ==
    /\ (uiPc \in {"set_resizable", "set_fullscreen"})
            => (epEvent.window # NULL /\ epEvent.window \in {windows[x] : x \in 1..NumWindows})
    /\ PostConnectSucceeded => (nextId - 1 = 1 + 2 * NumWindows)

\* C26: window list validity. Whenever the UI Thread is inside
\* sdl_end_paint_process, every window below sdl->windowCount has a created
\* (non-NULL) SDL_Window, also after a sdl_create_windows whose
\* SDL_CreateWindow failed.
C26_WindowListValid ==
    Compositing => \A x \in 1..windowCount : windows[x] # NULL

\* every queued SDL_USEREVENT_UPDATE has the handling of
\* SDL_USEREVENT_CREATE_WINDOWS before it: done, under way, or queued ahead
CreateWindowsAhead ==
    \A i \in DOMAIN queue :
        (queue[i].type = "SDL_USEREVENT_UPDATE")
            => \/ cwRuns >= 1
               \/ CreatingWindows
               \/ \E j \in 1..(i - 1) :
                    queue[j].type = "SDL_USEREVENT_CREATE_WINDOWS"

\* C27: no composite before window creation. The UI Thread is inside
\* sdl_end_paint_process only after it has run sdl_create_windows, because
\* SDL_USEREVENT_CREATE_WINDOWS is pushed before the paint hooks exist: a
\* paint cycle or a queued SDL_USEREVENT_UPDATE implies that the command was
\* pushed, and in the queue it is ahead of every SDL_USEREVENT_UPDATE.
C27_NoCompositeBeforeWindows ==
    /\ Compositing => (cwRuns >= 1)
    /\ (InPaintCycle \/ ptPc = "bp_wait" \/ PendingUpdates > 0) => (nextId >= 2)
    /\ CreateWindowsAhead

\* C27 witness: the first composite pass blits after sdl_create_windows ran
C27_Witness ==
    /\ uiPc = "ep_blit"
    /\ cwRuns = 1
    /\ framesBegun = 1
    /\ framesCompleted = 0

\* C28: process termination. Whenever the thread procedure has recorded its
\* exit code (sdl->exit_code = exit_code) and returned, a failed
\* freerdp_connect after a successful handshake included, the UI Thread
\* eventually leaves the loop of sdl_run and main returns the recorded code.
C28_ProcessTerminates ==
    (exitWrites = 1) ~> (uiPc = "exited" /\ rcMain = sdl_exit_code)

\* sdl_run has left its while loop: cleanup, return, and the join in main
UiLeftLoop == uiPc \in {"cleanup", "returned", "joining", "exited"}

\* C29: no hang on the gate at shutdown. The UI Thread leaves its loop only
\* with the abort event set; when it has left while an SDL_USEREVENT_UPDATE
\* is still queued, a Protocol Thread waiting in sdl_begin_paint returns
\* with a status other than WAIT_OBJECT_0 (sdl_begin_paint returns FALSE)
\* and leaves its loop, and the Protocol Thread eventually terminates.
C29_NoHangOnGate ==
    /\ [](UiLeftLoop => abortEvent)
    /\ []((UiLeftLoop /\ PendingUpdates > 0) => ~update_complete)
    /\ [][(UiLeftLoop /\ PendingUpdates > 0 /\ ptPc = "bp_wait"
              /\ ptPc' # ptPc)
            => (bpStatus' = WAIT_OBJECT_1 /\ ptPc' = "loop_exit")]_vars
    /\ (UiLeftLoop /\ PendingUpdates > 0) ~> (ptPc = "done")

\* C29 witness: the UI Thread has left its loop with the composite request
\* still queued, and the Protocol Thread, released from the second frame's
\* sdl_begin_paint by the abort event, has terminated
C29_Witness ==
    /\ UiLeftLoop
    /\ PendingUpdates > 0
    /\ nFrames = 2
    /\ framesBegun = 1
    /\ bpStatus = WAIT_OBJECT_1
    /\ ptPc = "done"


=============================================================================
